---- MODULE Spec2Model ----
(***************************************************************************)
(* Campus event hub backend: backend/routes/registrations.js, events.js,   *)
(* bookmarks.js and auth.js with the Mongoose models they use              *)
(* (Registration, Event, Bookmark, User).                                  *)
(*                                                                         *)
(* Spec           registration requests handled one at a time (each        *)
(*                handler is one step) against the initial events.         *)
(* SpecEvents     event create, update and delete requests, with           *)
(*                registration requests between them, one at a time.       *)
(* SpecBookmarks  bookmark add and remove requests, one at a time.         *)
(* SpecConc       create-registration and add-bookmark requests            *)
(*                interleaved at their awaits (read, read, insert).        *)
(* SpecAuth       account register requests interleaved at their awaits.   *)
(* SpecAnswers    create-registration requests that carry form answers.    *)
(* SpecTeams      invitation responses and member adds on one team,        *)
(*                interleaved between findById and save().                 *)
(* SpecAuthContext  dispatches to the frontend's authReducer               *)
(*                (frontend/src/context/AuthContext.jsx).                  *)
(***************************************************************************)
EXTENDS Integers, Sequences, FiniteSets, TLC

\* ---------------------------------------------------------------- bounds
NumUsers == 3
MaxRegs == 2
MaxNow == 1
MaxSteps == 4
MaxInput == 2
MaxInfo == 1
NumProcs == 2
MaxBookmarks == 1
MaxEvents == 3
MaxEventSteps == 3
MaxTime == 3
MaxFields == 1
MaxSignups == 3
MaxAccounts == 6
MaxAnswers == 2
MaxAnswerRegs == 1
MaxTeamRegs == 1
MaxTeamSteps == 5
NumTokens == 3
NumErrors == 3

\* ---------------------------------------------------------------- identifiers
Users == 1..NumUsers
\* a well-formed ObjectId that resolves to no stored document
UnknownId == NumUsers + 1
\* the value of a member entry's user_id when the entry carries none
NoUserId == NumUsers + 2

\* req.user.role of the bearer token: one administrator, one society head, the
\* others students
Role(u) == IF u = 1 THEN "admin" ELSE IF u = 2 THEN "society_head" ELSE "student"

\* User.email, and User.findOne({ email }) (null is UnknownId)
EmailOf(u) == <<"mail", u>>
Emails == {EmailOf(u) : u \in Users \cup {UnknownId}}
\* the email of a request that waits at no await
NoEmail == <<"mail", 0>>
UserByEmail(mail) ==
  IF \E u \in Users : EmailOf(u) = mail
  THEN CHOOSE u \in Users : EmailOf(u) = mail
  ELSE UnknownId

\* ---------------------------------------------------------------- frontend: AuthContext
\* null, for the user, the token and the error of the auth state
NoUser == 0
NoToken == <<"token", 0>>
NoError == <<"error", 0>>
Tokens == {<<"token", t>> : t \in 1..NumTokens}
Errors == {<<"error", x>> : x \in 1..NumErrors}

\* initialState, with the token localStorage holds at start-up
initialState(stored) ==
  [user |-> NoUser, token |-> stored, loading |-> TRUE, error |-> NoError,
   isAuthenticated |-> FALSE]

\* the reducer whose failure cases keep the user
authReducer_FailureKeepsUser(state, action) ==
  IF action.type \in {"LOGIN_START", "REGISTER_START", "LOAD_USER_START"}
  THEN [state EXCEPT !.loading = TRUE, !.error = NoError]
  ELSE IF action.type = "LOGIN_SUCCESS"
  THEN [state EXCEPT !.user = action.payload.user, !.token = action.payload.token,
                     !.loading = FALSE, !.error = NoError, !.isAuthenticated = TRUE]
  ELSE IF action.type = "REGISTER_SUCCESS"
  THEN [state EXCEPT !.loading = FALSE, !.error = NoError]
  ELSE IF action.type = "LOAD_USER_SUCCESS"
  THEN [state EXCEPT !.user = action.payload.user,
                     !.loading = FALSE, !.error = NoError, !.isAuthenticated = TRUE]
  ELSE IF action.type \in {"LOGIN_FAILURE", "REGISTER_FAILURE", "LOAD_USER_FAILURE"}
  THEN [state EXCEPT !.loading = FALSE, !.error = action.payload,
                     !.isAuthenticated = FALSE]
  ELSE IF action.type = "LOGOUT"
  THEN [state EXCEPT !.user = NoUser, !.token = NoToken, !.loading = FALSE,
                     !.error = NoError, !.isAuthenticated = FALSE]
  ELSE IF action.type = "CLEAR_ERROR"
  THEN [state EXCEPT !.error = NoError]
  ELSE state

\* authReducer(state, action)
authReducer(state, action) ==
  IF action.type \in {"LOGIN_START", "REGISTER_START", "LOAD_USER_START"}
  THEN [state EXCEPT !.loading = TRUE, !.error = NoError]
  ELSE IF action.type = "LOGIN_SUCCESS"
  THEN [state EXCEPT !.user = action.payload.user, !.token = action.payload.token,
                     !.loading = FALSE, !.error = NoError, !.isAuthenticated = TRUE]
  ELSE IF action.type = "REGISTER_SUCCESS"
  THEN [state EXCEPT !.loading = FALSE, !.error = NoError]
  ELSE IF action.type = "LOAD_USER_SUCCESS"
  THEN [state EXCEPT !.user = action.payload.user,
                     !.loading = FALSE, !.error = NoError, !.isAuthenticated = TRUE]
  ELSE IF action.type \in {"LOGIN_FAILURE", "REGISTER_FAILURE", "LOAD_USER_FAILURE"}
  THEN [state EXCEPT !.loading = FALSE, !.error = action.payload,
                     !.user = NoUser, !.isAuthenticated = FALSE]
  ELSE IF action.type = "LOGOUT"
  THEN [state EXCEPT !.user = NoUser, !.token = NoToken, !.loading = FALSE,
                     !.error = NoError, !.isAuthenticated = FALSE]
  ELSE IF action.type = "CLEAR_ERROR"
  THEN [state EXCEPT !.error = NoError]
  ELSE state

\* ---------------------------------------------------------------- events
\* Event documents (the fields the routes read or write).  Dates are points of
\* the clock.  max_teams is optional in the schema; an unset max_teams is falsy
\* and is written 0.
EventTable ==
  << [ event_type                 |-> "workshop",
       organizer_id               |-> 2,
       event_status               |-> "published",
       registration_open          |-> TRUE,
       registration_mode          |-> "team",
       min_team_size              |-> 2,
       max_team_size              |-> 3,
       max_teams                  |-> 1,
       start_datetime             |-> 1,
       end_datetime               |-> 2,
       registration_start_datetime |-> 0,
       registration_end_datetime   |-> 0,
       form_fields                |->
         << [field_id |-> "f1", label |-> "Age", field_type |-> "number"],
            [field_id |-> "f2", label |-> "Motivation", field_type |-> "long_text"] >> ],
     [ event_type                 |-> "workshop",
       organizer_id               |-> 2,
       event_status               |-> "ongoing",
       registration_open          |-> TRUE,
       registration_mode          |-> "individual",
       min_team_size              |-> 1,
       max_team_size              |-> 1,
       max_teams                  |-> 0,
       start_datetime             |-> 2,
       end_datetime               |-> 3,
       registration_start_datetime |-> 1,
       registration_end_datetime   |-> 1,
       form_fields                |->
         << [field_id |-> "f3", label |-> "Arrival", field_type |-> "date"] >> ] >>

EventIds == 1..Len(EventTable)
UnknownEvent == Len(EventTable) + 1

VARIABLES
  events,     \* Event collection: event id -> document
  regs,       \* Registration collection: registration id -> document
  bookmarks,  \* Bookmark collection: set of <<user_id, event_id>>
  now,        \* the clock read by new Date()
  last,       \* the request that wrote to the Registration collection last
  steps,      \* how many steps have changed the store or the clock
  procs,      \* SpecConc: the position of each in-flight request
  accounts,   \* User collection: account id -> document
  signups,    \* SpecAuth: the email each in-flight register request carries
  auth        \* SpecAuthContext: the state held by the frontend's authReducer

vars == <<events, regs, bookmarks, now, last, steps, procs, accounts, signups, auth>>

\* ---------------------------------------------------------------- helpers
SeqsUpTo(S, n) == UNION {[1..k -> S] : k \in 0..n}

RemoveAt(s, i) == [j \in 1..(Len(s) - 1) |-> IF j < i THEN s[j] ELSE s[j + 1]]

\* Array.prototype.findIndex on members by user_id; 0 when there is none
FindMember(members, uid) ==
  IF \E i \in 1..Len(members) : members[i].user_id = uid
  THEN CHOOSE i \in 1..Len(members) :
         /\ members[i].user_id = uid
         /\ \A j \in 1..(i - 1) : members[j].user_id # uid
  ELSE 0

\* members.filter(m => accepted || auto_added).length
AcceptedCount(members) ==
  Cardinality({i \in 1..Len(members) :
                 members[i].invite_status \in {"accepted", "auto_added"}})

\* countDocuments({ event_id, status: { $in: ['pending', 'confirmed'] } })
CountActive(store, e) ==
  Cardinality({i \in 1..Len(store) :
                 /\ store[i].event_id = e
                 /\ store[i].status \in {"pending", "confirmed"}})

\* a lookup that passes over cancelled documents
HasRegistration_ActiveOnly(store, e, u) ==
  \E i \in 1..Len(store) :
    /\ store[i].event_id = e
    /\ store[i].leader_user_id = u
    /\ store[i].status # "cancelled"

\* Registration.findOne({ event_id, leader_user_id }) finds a document
HasRegistration(store, e, u) ==
  \E i \in 1..Len(store) : store[i].event_id = e /\ store[i].leader_user_id = u

Member(uid, role, st) ==
  [user_id |-> uid, role |-> role, invite_status |-> st, responded_at |-> FALSE]

Response(code, msg, store) == [status |-> code, message |-> msg, regs |-> store]

\* ---------------------------------------------------------------- Registration model
\* memberSchema: user_id is required, invite_status is one of the enum values
MemberValid(m) ==
  /\ m.user_id # NoUserId
  /\ m.role \in {"leader", "member"}
  /\ m.invite_status \in {"auto_added", "invited", "accepted", "declined"}

\* ---------------------------------------------------------------- answers
\* Values of form answers as JSON carries them, and as the schema casts them.
\* `kind` is the type of the value, `repr` its printed form.
Value(kind, repr) == [kind |-> kind, repr |-> repr]
\* a slot of an answer that was never assigned
NoValue == Value("undefined", "")
\* the result of a cast that throws a CastError
CastError == Value("error", "")
NumericStrings == {"7"}

\* SchemaString cast (value_text): numbers are printed, strings kept
CastText(v) ==
  IF v.kind \in {"number", "string"} THEN Value("string", v.repr) ELSE v

\* SchemaNumber cast (value_number): the empty string becomes null, a string
\* that is not a number throws
CastNumber(v) ==
  IF v.kind = "number" THEN v
  ELSE IF v.kind = "string" /\ v.repr = "" THEN Value("null", "")
  ELSE IF v.kind = "string" /\ v.repr \in NumericStrings THEN Value("number", v.repr)
  ELSE IF v.kind = "string" THEN CastError
  ELSE v

\* SchemaDate cast (value_date): the empty string becomes null, numbers and
\* numeric strings are epoch milliseconds, any other string here is no date
CastDate(v) ==
  IF v.kind = "number" THEN Value("date", v.repr)
  ELSE IF v.kind = "string" /\ v.repr = "" THEN Value("null", "")
  ELSE IF v.kind = "string" /\ v.repr \in NumericStrings THEN Value("date", v.repr)
  ELSE IF v.kind = "string" THEN CastError
  ELSE v

\* answerData that ignores the field type and always fills value_text
AnswerData_TextOnly(field, answer) ==
  [ field_id     |-> answer.field_id,
    field_label  |-> field.label,
    value_text   |-> answer.value,
    value_number |-> NoValue,
    value_date   |-> NoValue ]

\* answerData for a submitted answer that matches `field`
AnswerData(field, answer) ==
  [ field_id     |-> answer.field_id,
    field_label  |-> field.label,
    value_text   |-> IF field.field_type \notin {"number", "date"} THEN answer.value ELSE NoValue,
    value_number |-> IF field.field_type = "number" THEN answer.value ELSE NoValue,
    value_date   |-> IF field.field_type = "date" THEN answer.value ELSE NoValue ]

\* event.form_fields.find(f => f.field_id === id); 0 when there is none
FindField(fields, id) ==
  IF \E i \in 1..Len(fields) : fields[i].field_id = id
  THEN CHOOSE i \in 1..Len(fields) :
         /\ fields[i].field_id = id
         /\ \A j \in 1..(i - 1) : fields[j].field_id # id
  ELSE 0

\* the for-loop over form_answers: answers of unknown fields are skipped
ProcessAnswers(fields, formAnswers) ==
  LET kept == SelectSeq(formAnswers, LAMBDA a : FindField(fields, a.field_id) # 0)
  IN  [i \in 1..Len(kept) |-> AnswerData(fields[FindField(fields, kept[i].field_id)], kept[i])]

\* answerSchema casting of one answer
CastAnswer(a) ==
  [a EXCEPT !.value_text = CastText(a.value_text),
            !.value_number = CastNumber(a.value_number),
            !.value_date = CastDate(a.value_date)]

CastAnswers(doc) ==
  [doc EXCEPT !.answers = [i \in 1..Len(doc.answers) |-> CastAnswer(doc.answers[i])]]

\* answerSchema: no cast throws
AnswerValid(a) ==
  /\ CastAnswer(a).value_text # CastError
  /\ CastAnswer(a).value_number # CastError
  /\ CastAnswer(a).value_date # CastError

\* document validation run by save() before the pre('save') hooks
DocValid(doc) ==
  /\ \A i \in 1..Len(doc.members) : MemberValid(doc.members[i])
  /\ \A i \in 1..Len(doc.answers) : AnswerValid(doc.answers[i])

\* the hook without its minimum-size branch
PreSaveOk_NoMinimum(doc, membersModified) ==
  IF doc.mode = "team" /\ membersModified
  THEN IF doc.event_id \in DOMAIN events
       THEN Len(doc.members) <= events[doc.event_id].max_team_size
       ELSE TRUE
  ELSE TRUE

\* registrationSchema.pre('save'): TRUE when the hook calls next() without error
PreSaveOk(doc, membersModified) ==
  IF doc.mode = "team" /\ membersModified
  THEN IF doc.event_id \in DOMAIN events
       THEN /\ Len(doc.members) >= events[doc.event_id].min_team_size
            /\ Len(doc.members) <= events[doc.event_id].max_team_size
       ELSE TRUE
  ELSE TRUE

\* Registration.create(registrationData) against the collection `store`, as
\* answered by the catch block of POST /api/registrations
InsertRegistration(store, doc) ==
  IF ~DocValid(doc)
  THEN Response(400, "Validation failed", store)
  ELSE IF ~PreSaveOk(doc, TRUE)
  THEN Response(500, "Server error during registration", store)
  ELSE IF HasRegistration(store, doc.event_id, doc.leader_user_id)
  THEN Response(500, "Server error during registration", store)
  ELSE Response(201, "Registration successful", Append(store, CastAnswers(doc)))

\* registration.save() of a loaded document at index r, answered by `errmsg`
\* when the save throws
SaveRegistration(r, doc, membersModified, okmsg, errmsg) ==
  IF ~DocValid(doc) \/ ~PreSaveOk(doc, membersModified)
  THEN Response(500, errmsg, regs)
  ELSE Response(200, okmsg, [regs EXCEPT ![r] = doc])

\* ---------------------------------------------------------------- POST /api/registrations
Continue(store) == Response(0, "", store)

\* the event checks with the registration window tested before the status
CheckEvent_WindowFirst(e) ==
  IF e \notin DOMAIN events
  THEN Response(404, "Event not found", regs)
  ELSE IF now < events[e].registration_start_datetime
  THEN Response(400, "Registration has not started yet", regs)
  ELSE IF now > events[e].registration_end_datetime
  THEN Response(400, "Registration deadline has passed", regs)
  ELSE IF events[e].event_status \notin {"published", "ongoing"}
  THEN Response(400, "Registration is not open for this event", regs)
  ELSE IF ~events[e].registration_open
  THEN Response(400, "Registration is currently closed", regs)
  ELSE Continue(regs)

\* the event checks: exists, published or ongoing, open, inside the window
CheckEvent(e) ==
  IF e \notin DOMAIN events
  THEN Response(404, "Event not found", regs)
  ELSE IF events[e].event_status \notin {"published", "ongoing"}
  THEN Response(400, "Registration is not open for this event", regs)
  ELSE IF ~events[e].registration_open
  THEN Response(400, "Registration is currently closed", regs)
  ELSE IF now < events[e].registration_start_datetime
  THEN Response(400, "Registration has not started yet", regs)
  ELSE IF now > events[e].registration_end_datetime
  THEN Response(400, "Registration deadline has passed", regs)
  ELSE Continue(regs)

\* the handler without its existence pre-check
CheckExisting_Skipped(store, u, e) == Continue(regs)

\* the existence pre-check on the collection as read (findOne)
CheckExisting(store, u, e) ==
  IF HasRegistration(store, e, u)
  THEN Response(409, "You are already registered for this event", regs)
  ELSE Continue(regs)

\* the capacity comparison off by one (> for >=)
CapacityReached_OffByOne(e, registrationCount) ==
  events[e].max_teams # 0 /\ registrationCount > events[e].max_teams

\* the comparison of the capacity check on the count as read (countDocuments)
CapacityReached(e, registrationCount) ==
  events[e].max_teams # 0 /\ registrationCount >= events[e].max_teams

CheckCapacity(e, registrationCount) ==
  IF CapacityReached(e, registrationCount)
  THEN Response(400, "Event has reached maximum capacity", regs)
  ELSE Continue(regs)

\* members pushed for team_members (user ids): the leader's own id is skipped
MembersById(u, tm) ==
  LET kept == SelectSeq(tm, LAMBDA id : id # u)
  IN  [i \in 1..Len(kept) |-> Member(kept[i], "member", "invited")]

\* members pushed for team_members_info (email, name): resolved by email
MembersByInfo(u, tmi) ==
  LET kept == SelectSeq(tmi, LAMBDA mail : UserByEmail(mail) # u)
  IN  [i \in 1..Len(kept) |->
         IF UserByEmail(kept[i]) \in Users
         THEN Member(UserByEmail(kept[i]), "member", "invited")
         ELSE Member(NoUserId, "member", "pending_registration")]

\* the members array assembled by the handler
BuildMembers(u, tm, tmi) ==
  <<Member(u, "leader", "auto_added")>> \o MembersById(u, tm) \o MembersByInfo(u, tmi)

NewRegistration(u, e, members) ==
  [event_id |-> e, mode |-> events[e].registration_mode, leader_user_id |-> u,
   status |-> "pending", members |-> members, answers |-> <<>>]

\* registrationData, or the response that ends the request while building it;
\* `named` says whether team_name is a non-blank string
BuildRegistration(u, e, named, tm, tmi) ==
  IF events[e].registration_mode = "team"
  THEN IF ~named
       THEN [status |-> 400, message |-> "Team name is required for team events",
             doc |-> NewRegistration(u, e, <<>>)]
       ELSE IF \E i \in 1..Len(tm) : tm[i] \notin Users
       THEN [status |-> 404, message |-> "User not found",
             doc |-> NewRegistration(u, e, <<>>)]
       ELSE IF Len(BuildMembers(u, tm, tmi)) < events[e].min_team_size
       THEN [status |-> 400, message |-> "Team must have at least min_team_size members",
             doc |-> NewRegistration(u, e, <<>>)]
       ELSE IF Len(BuildMembers(u, tm, tmi)) > events[e].max_team_size
       THEN [status |-> 400, message |-> "Team cannot have more than max_team_size members",
             doc |-> NewRegistration(u, e, <<>>)]
       ELSE [status |-> 0, message |-> "",
             doc |-> NewRegistration(u, e, BuildMembers(u, tm, tmi))]
  ELSE [status |-> 0, message |-> "", doc |-> NewRegistration(u, e, <<>>)]

\* the whole handler when no other request runs between its awaits
CreateRegistrationWithAnswers(u, e, named, tm, tmi, formAnswers) ==
  LET c1 == CheckEvent(e)
      c2 == CheckExisting(regs, u, e)
      c3 == CheckCapacity(e, CountActive(regs, e))
      b  == BuildRegistration(u, e, named, tm, tmi)
  IN  IF c1.status # 0 THEN c1
      ELSE IF c2.status # 0 THEN c2
      ELSE IF c3.status # 0 THEN c3
      ELSE IF b.status # 0 THEN Response(b.status, b.message, regs)
      ELSE InsertRegistration(regs,
             [b.doc EXCEPT !.answers = ProcessAnswers(events[e].form_fields, formAnswers)])

\* the handler for a request that carries no form_answers
CreateRegistration(u, e, named, tm, tmi) ==
  CreateRegistrationWithAnswers(u, e, named, tm, tmi, <<>>)

\* ---------------------------------------------------------------- PUT /:registrationId/invitation
RespondInvitation(u, r, action) ==
  IF action \notin {"accept", "decline"}
  THEN Response(400, "Invalid action", regs)
  ELSE IF r \notin DOMAIN regs
  THEN Response(404, "Registration not found", regs)
  ELSE LET memberIndex == FindMember(regs[r].members, u)
       IN  IF memberIndex = 0
           THEN Response(404, "You are not invited to this team", regs)
           ELSE IF regs[r].members[memberIndex].invite_status # "invited"
           THEN Response(400, "Invitation already answered", regs)
           ELSE SaveRegistration(r,
                  [regs[r] EXCEPT !.members[memberIndex].invite_status =
                     IF action = "accept" THEN "accepted" ELSE "declined"],
                  TRUE, "Invitation answered successfully",
                  "Server error while updating invitation")

\* ---------------------------------------------------------------- PUT /:registrationId/members/:memberId
\* the status written after the recount of accepted and auto_added members
PromotedStatus(doc) ==
  IF /\ AcceptedCount(doc.members) >= events[doc.event_id].min_team_size
     /\ AcceptedCount(doc.members) <= events[doc.event_id].max_team_size
  THEN "confirmed"
  ELSE doc.status

UpdateMemberStatus(u, r, memberId, invite_status) ==
  IF invite_status \notin {"accepted", "declined"}
  THEN Response(400, "Invalid invite status", regs)
  ELSE IF r \notin DOMAIN regs
  THEN Response(404, "Registration not found", regs)
  ELSE LET memberIndex == FindMember(regs[r].members, memberId)
       IN  IF memberIndex = 0
           THEN Response(404, "Member not found in this registration", regs)
           ELSE IF u # memberId
           THEN Response(403, "You can only update your own invite status", regs)
           ELSE LET answered == [regs[r] EXCEPT
                                   !.members[memberIndex].invite_status = invite_status,
                                   !.members[memberIndex].responded_at = TRUE]
                IN  SaveRegistration(r,
                      [answered EXCEPT !.status = PromotedStatus(answered)],
                      TRUE, "Invitation updated",
                      "Server error while updating member status")

\* ---------------------------------------------------------------- POST /:registrationId/members
\* the for-loop over members_to_add: ids already in the team and ids that
\* resolve to no account are skipped, the others are pushed as invited
RECURSIVE PushMembers(_, _)
PushMembers(members, toAdd) ==
  IF toAdd = <<>>
  THEN members
  ELSE IF FindMember(members, Head(toAdd)) # 0
  THEN PushMembers(members, Tail(toAdd))
  ELSE IF Head(toAdd) \in Users
  THEN PushMembers(Append(members, Member(Head(toAdd), "member", "invited")), Tail(toAdd))
  ELSE PushMembers(members, Tail(toAdd))

\* the handler without its maximum-size check
AddMembers_NoMaximum(u, r, toAdd) ==
  IF toAdd = <<>>
  THEN Response(400, "members_to_add array is required", regs)
  ELSE IF r \notin DOMAIN regs
  THEN Response(404, "Registration not found", regs)
  ELSE IF regs[r].leader_user_id # u
  THEN Response(403, "Only team leader can add members", regs)
  ELSE IF regs[r].event_id \notin DOMAIN events
  THEN Response(404, "Event not found", regs)
  ELSE LET pushed == PushMembers(regs[r].members, toAdd)
       IN  IF ~DocValid([regs[r] EXCEPT !.members = pushed])
           THEN Response(500, "Server error while adding team members", regs)
           ELSE Response(200, "Team members added successfully",
                         [regs EXCEPT ![r].members = pushed])

AddMembers(u, r, toAdd) ==
  IF toAdd = <<>>
  THEN Response(400, "members_to_add array is required", regs)
  ELSE IF r \notin DOMAIN regs
  THEN Response(404, "Registration not found", regs)
  ELSE IF regs[r].leader_user_id # u
  THEN Response(403, "Only team leader can add members", regs)
  ELSE IF regs[r].event_id \notin DOMAIN events
  THEN Response(404, "Event not found", regs)
  ELSE LET pushed == PushMembers(regs[r].members, toAdd)
       IN  IF Len(pushed) > events[regs[r].event_id].max_team_size
           THEN Response(400, "Team size cannot exceed max_team_size members", regs)
           ELSE SaveRegistration(r, [regs[r] EXCEPT !.members = pushed],
                  pushed # regs[r].members, "Team members added successfully",
                  "Server error while adding team members")

\* ---------------------------------------------------------------- DELETE /:registrationId/members/:memberId
\* the guard with < for <=
BelowMinimum_Strict(doc, memberIndex) ==
  /\ doc.members[memberIndex].invite_status \in {"accepted", "auto_added"}
  /\ AcceptedCount(doc.members) < events[doc.event_id].min_team_size

\* the guard on removing an accepted or auto_added member
BelowMinimum(doc, memberIndex) ==
  /\ doc.members[memberIndex].invite_status \in {"accepted", "auto_added"}
  /\ AcceptedCount(doc.members) <= events[doc.event_id].min_team_size

RemoveMember(u, r, memberId) ==
  IF r \notin DOMAIN regs
  THEN Response(404, "Registration not found", regs)
  ELSE IF regs[r].leader_user_id # u
  THEN Response(403, "Only team leader can remove members", regs)
  ELSE LET memberIndex == FindMember(regs[r].members, memberId)
       IN  IF memberIndex = 0
           THEN Response(404, "Member not found in team", regs)
           ELSE IF regs[r].members[memberIndex].role = "leader"
           THEN Response(400, "Cannot remove team leader", regs)
           ELSE IF regs[r].event_id \notin DOMAIN events
           THEN Response(404, "Event not found", regs)
           ELSE IF BelowMinimum(regs[r], memberIndex)
           THEN Response(400, "Cannot remove accepted member", regs)
           ELSE SaveRegistration(r,
                  [regs[r] EXCEPT !.members = RemoveAt(regs[r].members, memberIndex)],
                  TRUE, "Team member removed successfully",
                  "Server error while removing team member")

\* ---------------------------------------------------------------- DELETE /:registrationId
\* the handler that lets only the leader cancel
CancelRegistration_LeaderOnly(u, r) ==
  IF r \notin DOMAIN regs
  THEN Response(404, "Registration not found", regs)
  ELSE IF regs[r].leader_user_id # u
  THEN Response(403, "You are not authorized to cancel this registration", regs)
  ELSE Response(200, "Registration cancelled successfully",
                [regs EXCEPT ![r].status = "cancelled"])

CancelRegistration(u, r) ==
  IF r \notin DOMAIN regs
  THEN Response(404, "Registration not found", regs)
  ELSE IF /\ regs[r].leader_user_id # u
          /\ FindMember(regs[r].members, u) = 0
          /\ Role(u) # "admin"
  THEN Response(403, "You are not authorized to cancel this registration", regs)
  ELSE SaveRegistration(r, [regs[r] EXCEPT !.status = "cancelled"], FALSE,
         "Registration cancelled successfully",
         "Server error while cancelling registration")

\* ---------------------------------------------------------------- GET /api/registrations, GET /:registrationId
\* a query that carries no event_id
NoEventQuery == 0
\* a query that carries no status
AnyStatus == "any"

\* the $or filter: the caller leads the Registration, or some member entry has
\* the caller's user_id and some member entry is accepted or auto_added (the
\* two conditions on `members` are not tied to one entry)
OwnFilter(u, doc) ==
  \/ doc.leader_user_id = u
  \/ /\ \E i \in 1..Len(doc.members) : doc.members[i].user_id = u
     /\ \E j \in 1..Len(doc.members) :
          doc.members[j].invite_status \in {"accepted", "auto_added"}

\* the ids of the Registrations GET /api/registrations returns
ListRegistrations(u, e, st) ==
  IF e = NoEventQuery
  THEN [status |-> 200,
        ids |-> {r \in DOMAIN regs :
                   /\ OwnFilter(u, regs[r])
                   /\ st # AnyStatus => regs[r].status = st}]
  ELSE IF e \notin DOMAIN events
  THEN [status |-> 404, ids |-> {}]
  ELSE IF events[e].organizer_id = u \/ Role(u) = "admin"
  THEN [status |-> 200,
        ids |-> {r \in DOMAIN regs :
                   /\ regs[r].event_id = e
                   /\ st # AnyStatus => regs[r].status = st}]
  ELSE [status |-> 200,
        ids |-> {r \in DOMAIN regs :
                   /\ regs[r].event_id = e
                   /\ OwnFilter(u, regs[r])
                   /\ st # AnyStatus => regs[r].status = st}]

\* the status of the response of GET /api/registrations/:registrationId
GetRegistration(u, r) ==
  IF r \notin DOMAIN regs
  THEN 404
  ELSE IF /\ ~(regs[r].event_id \in DOMAIN events /\ events[regs[r].event_id].organizer_id = u)
          /\ regs[r].leader_user_id # u
          /\ FindMember(regs[r].members, u) = 0
          /\ Role(u) # "admin"
  THEN 403
  ELSE 200

\* ---------------------------------------------------------------- event routes
EventTypes == {"workshop", "seminar", "competition", "cultural", "sports",
               "orientation", "hackathon"}
EventStatuses == {"draft", "published", "ongoing", "completed", "cancelled"}
Times == 0..MaxTime
\* an optional number the request body does not carry
Unset == 0

EventResponse(code, msg, store) == [status |-> code, message |-> msg, events |-> store]

\* the schema validation without the validators that order the dates
EventValid_NoDateOrder(ev) ==
  /\ ev.event_type \in EventTypes
  /\ ev.event_status \in EventStatuses
  /\ ev.registration_mode \in {"individual", "team"}
  /\ ev.start_datetime > now
  /\ ev.min_team_size >= 1
  /\ ev.max_team_size >= 1
  /\ ev.max_team_size >= ev.min_team_size
  /\ ev.max_teams = Unset \/ ev.max_teams >= 1

\* eventSchema validation as run by save() and create(): every validator of the
\* document runs, with `this` the document being saved
EventValid(ev) ==
  /\ ev.event_type \in EventTypes
  /\ ev.event_status \in EventStatuses
  /\ ev.registration_mode \in {"individual", "team"}
  /\ ev.start_datetime > now
  /\ ev.end_datetime > ev.start_datetime
  /\ ev.registration_end_datetime < ev.start_datetime
  /\ ev.min_team_size >= 1
  /\ ev.max_team_size >= 1
  /\ ev.max_team_size >= ev.min_team_size
  /\ ev.max_teams = Unset \/ ev.max_teams >= 1

\* validateEventCreation: TRUE when no validation chain reports an error
CreationValid(body) ==
  /\ body.event_type \in EventTypes
  /\ body.end_datetime > body.start_datetime
  /\ (body.max_team_size # Unset /\ body.min_team_size # Unset)
       => body.max_team_size >= body.min_team_size
  /\ body.registration_end_datetime < body.start_datetime

\* eventData built from the request body, with the schema defaults
NewEvent(u, body) ==
  [ event_type                 |-> body.event_type,
    organizer_id               |-> u,
    event_status               |-> body.event_status,
    registration_open          |-> TRUE,
    registration_mode          |-> body.registration_mode,
    min_team_size              |-> IF body.min_team_size # Unset THEN body.min_team_size ELSE 1,
    max_team_size              |-> IF body.max_team_size # Unset THEN body.max_team_size ELSE 1,
    max_teams                  |-> body.max_teams,
    start_datetime             |-> body.start_datetime,
    end_datetime               |-> body.end_datetime,
    registration_start_datetime |-> body.registration_start_datetime,
    registration_end_datetime   |-> body.registration_end_datetime,
    form_fields                |-> body.form_fields ]

\* POST /api/events
CreateEvent(u, body) ==
  IF Role(u) \notin {"society_head", "admin"}
  THEN EventResponse(403, "Access denied", events)
  ELSE IF ~CreationValid(body)
  THEN EventResponse(400, "Validation failed", events)
  ELSE IF ~EventValid(NewEvent(u, body))
  THEN EventResponse(400, "Validation failed", events)
  ELSE EventResponse(201, "Event created successfully", Append(events, NewEvent(u, body)))

\* the fields PUT /api/events/:eventId copies from the body
AllowedUpdates == {"event_status", "start_datetime", "end_datetime",
                   "registration_start_datetime", "registration_end_datetime",
                   "max_teams", "registration_open"}

\* event[field] after the forEach over allowedUpdates
Updated(ev, body, field) ==
  IF field \in AllowedUpdates /\ field \in DOMAIN body THEN body[field] ELSE ev[field]

ApplyUpdates(ev, body) ==
  [ event_type                 |-> Updated(ev, body, "event_type"),
    organizer_id               |-> Updated(ev, body, "organizer_id"),
    event_status               |-> Updated(ev, body, "event_status"),
    registration_open          |-> Updated(ev, body, "registration_open"),
    registration_mode          |-> Updated(ev, body, "registration_mode"),
    min_team_size              |-> Updated(ev, body, "min_team_size"),
    max_team_size              |-> Updated(ev, body, "max_team_size"),
    max_teams                  |-> Updated(ev, body, "max_teams"),
    start_datetime             |-> Updated(ev, body, "start_datetime"),
    end_datetime               |-> Updated(ev, body, "end_datetime"),
    registration_start_datetime |-> Updated(ev, body, "registration_start_datetime"),
    registration_end_datetime   |-> Updated(ev, body, "registration_end_datetime"),
    form_fields                |-> Updated(ev, body, "form_fields") ]

\* the guard that looks at event_type only
LockedFieldNamed_TypeOnly(ev, body) ==
  /\ ev.event_status \in {"published", "ongoing"}
  /\ "event_type" \in DOMAIN body /\ body.event_type # ev.event_type

\* the guard on published and ongoing events: a different event_type, or any
\* organizer_id, in the body
LockedFieldNamed(ev, body) ==
  /\ ev.event_status \in {"published", "ongoing"}
  /\ \/ "event_type" \in DOMAIN body /\ body.event_type # ev.event_type
     \/ "organizer_id" \in DOMAIN body

\* PUT /api/events/:eventId
UpdateEvent(u, e, body) ==
  IF "event_status" \in DOMAIN body /\ body.event_status \notin EventStatuses
  THEN EventResponse(400, "Validation failed", events)
  ELSE IF e \notin DOMAIN events
  THEN EventResponse(404, "Event not found", events)
  ELSE IF events[e].organizer_id # u /\ Role(u) # "admin"
  THEN EventResponse(403, "You are not authorized to update this event", events)
  ELSE IF LockedFieldNamed(events[e], body)
  THEN EventResponse(400, "Cannot change field after publication", events)
  ELSE IF \/ "max_teams" \in DOMAIN body /\ body.max_teams < 1
          \/ ~EventValid(ApplyUpdates(events[e], body))
  THEN EventResponse(400, "Validation failed", events)
  ELSE EventResponse(200, "Event updated successfully",
                     [events EXCEPT ![e] = ApplyUpdates(events[e], body)])

\* a handler that drops the document instead of cancelling it
DeleteEvent_Hard(u, e) ==
  IF e \notin DOMAIN events
  THEN EventResponse(404, "Event not found", events)
  ELSE IF events[e].organizer_id # u /\ Role(u) # "admin"
  THEN EventResponse(403, "You are not authorized to delete this event", events)
  ELSE EventResponse(200, "Event cancelled successfully", RemoveAt(events, e))

\* DELETE /api/events/:eventId
DeleteEvent(u, e) ==
  IF e \notin DOMAIN events
  THEN EventResponse(404, "Event not found", events)
  ELSE IF events[e].organizer_id # u /\ Role(u) # "admin"
  THEN EventResponse(403, "You are not authorized to delete this event", events)
  ELSE IF ~EventValid([events[e] EXCEPT !.event_status = "cancelled"])
  THEN EventResponse(500, "Server error while deleting event", events)
  ELSE EventResponse(200, "Event cancelled successfully",
                     [events EXCEPT ![e].event_status = "cancelled"])

\* ---------------------------------------------------------------- requests, one at a time
\* the registration ids a request may name: the stored ones and an unknown one
RegIds == 1..(Len(regs) + 1)
TeamMemberInputs == SeqsUpTo(Users \cup {UnknownId}, MaxInput)
TeamInfoInputs == SeqsUpTo(Emails, MaxInfo)
\* team_name, team_members and team_members_info are read for team events
\* only: for the other events one submission stands for all
IsTeamEvent(e) == e \in DOMAIN events /\ events[e].registration_mode = "team"
NameInputs(e) == IF IsTeamEvent(e) THEN BOOLEAN ELSE {TRUE}
MemberInputs(e) == IF IsTeamEvent(e) THEN TeamMemberInputs ELSE {<<>>}
InfoInputs(e) == IF IsTeamEvent(e) THEN TeamInfoInputs ELSE {<<>>}
Idle == [pc |-> "idle", user |-> UnknownId, event |-> UnknownEvent,
         tm |-> <<>>, cnt |-> 0]

\* The step of a handler that answers `res`.  The response is the handler's
\* output; the state keeps the collection it leaves, which request wrote to
\* the store last, and how many steps have changed the state.  A request that
\* leaves the collection as it was is a stuttering step.
Answer(op, res) ==
  /\ steps < MaxSteps
  /\ IF res.regs = regs
     THEN UNCHANGED vars
     ELSE /\ regs' = res.regs
          /\ last' = op
          /\ steps' = steps + 1
          /\ UNCHANGED <<events, bookmarks, now, procs, accounts, signups, auth>>

\* the submitted member lists are read for team events only
Create(u, e, named, tm, tmi) ==
  /\ Len(regs) < MaxRegs
  /\ steps < MaxSteps
  /\ Answer("create", CreateRegistration(u, e, named, tm, tmi))

Invitation(u, r, action) == Answer("invitation", RespondInvitation(u, r, action))

MemberStatus(u, r, m, st) == Answer("member_status", UpdateMemberStatus(u, r, m, st))

Add(u, r, toAdd) == Answer("add", AddMembers(u, r, toAdd))

Remove(u, r, m) == Answer("remove", RemoveMember(u, r, m))

Cancel(u, r) == Answer("cancel", CancelRegistration(u, r))

Tick ==
  /\ now < MaxNow
  /\ steps < MaxSteps
  /\ now' = now + 1
  /\ steps' = steps + 1
  /\ UNCHANGED <<events, regs, bookmarks, last, procs, accounts, signups, auth>>

Init ==
  /\ events = EventTable
  /\ regs = <<>>
  /\ bookmarks = {}
  /\ now = 0
  /\ last = "none"
  /\ steps = 0
  /\ procs = [p \in 1..NumProcs |-> Idle]
  /\ accounts = [u \in Users |-> [email |-> EmailOf(u)]]
  /\ signups = [p \in 1..NumProcs |-> NoEmail]
  /\ auth = initialState(NoToken)

Next ==
  \/ \E u \in Users, e \in EventIds \cup {UnknownEvent} :
        \E named \in NameInputs(e), tm \in MemberInputs(e), tmi \in InfoInputs(e) :
           Create(u, e, named, tm, tmi)
  \/ \E u \in Users, r \in RegIds, action \in {"accept", "decline", "maybe"} :
        Invitation(u, r, action)
  \/ \E u \in Users, r \in RegIds, m \in Users \cup {UnknownId},
        st \in {"accepted", "declined", "invited"} : MemberStatus(u, r, m, st)
  \/ \E u \in Users, r \in RegIds, toAdd \in TeamMemberInputs : Add(u, r, toAdd)
  \/ \E u \in Users, r \in RegIds, m \in Users \cup {UnknownId} : Remove(u, r, m)
  \/ \E u \in Users, r \in RegIds : Cancel(u, r)
  \/ Tick

Spec == Init /\ [][Next]_vars

\* ---------------------------------------------------------------- POST /api/bookmarks
BookmarkResponse(code, msg, store) ==
  [status |-> code, message |-> msg, bookmarks |-> store]

\* the checks without the lookup of the stored pair
CheckBookmark_NoLookup(store, u, e) ==
  IF e \notin DOMAIN events
  THEN BookmarkResponse(404, "Event not found", bookmarks)
  ELSE BookmarkResponse(0, "", bookmarks)

\* the checks before the insert: the event exists, the pair is not stored
CheckBookmark(store, u, e) ==
  IF e \notin DOMAIN events
  THEN BookmarkResponse(404, "Event not found", bookmarks)
  ELSE IF <<u, e>> \in store
  THEN BookmarkResponse(409, "Event already bookmarked", bookmarks)
  ELSE BookmarkResponse(0, "", bookmarks)

\* Bookmark.create against the collection `store` under the unique index on
\* (user_id, event_id), as answered by the handler and its catch block
InsertBookmark(store, u, e) ==
  IF <<u, e>> \in store
  THEN BookmarkResponse(500, "Server error while bookmarking event", store)
  ELSE BookmarkResponse(201, "Event bookmarked successfully", store \cup {<<u, e>>})

\* the whole POST /api/bookmarks handler when no other request runs between
\* its awaits
AddBookmark(u, e) ==
  IF CheckBookmark(bookmarks, u, e).status # 0
  THEN CheckBookmark(bookmarks, u, e)
  ELSE InsertBookmark(bookmarks, u, e)

\* DELETE /api/bookmarks/:eventId (findOneAndDelete)
RemoveBookmark(u, e) ==
  IF <<u, e>> \in bookmarks
  THEN BookmarkResponse(200, "Bookmark removed successfully", bookmarks \ {<<u, e>>})
  ELSE BookmarkResponse(404, "Bookmark not found", bookmarks)

\* GET /api/bookmarks/check/:eventId: the isBookmarked of the 200 response
IsBookmarked(u, e) == \E b \in bookmarks : b[1] = u /\ b[2] = e

\* ---------------------------------------------------------------- bookmark requests, one at a time
BookmarkAnswer(op, res) ==
  IF res.bookmarks = bookmarks
  THEN UNCHANGED vars
  ELSE /\ bookmarks' = res.bookmarks
       /\ last' = op
       /\ UNCHANGED <<events, regs, now, steps, procs, accounts, signups, auth>>

PostBookmark(u, e) == BookmarkAnswer("bookmark_add", AddBookmark(u, e))

DeleteBookmark(u, e) == BookmarkAnswer("bookmark_remove", RemoveBookmark(u, e))

NextBookmarks ==
  \/ \E u \in Users, e \in EventIds \cup {UnknownEvent} : PostBookmark(u, e)
  \/ \E u \in Users, e \in EventIds \cup {UnknownEvent} : DeleteBookmark(u, e)

SpecBookmarks == Init /\ [][NextBookmarks]_vars

\* ---------------------------------------------------------------- interleaved requests
Procs == 1..NumProcs
\* the member lists submitted by the interleaved creates: one invited account
ConcMemberInputs == [1..1 -> Users]

\* POST /api/registrations up to the existence pre-check (lines 23-76)
CreateFind(p, u, e, tm) ==
  /\ procs[p].pc = "idle"
  /\ IF CheckEvent(e).status # 0 \/ CheckExisting(regs, u, e).status # 0
     THEN UNCHANGED vars
     ELSE /\ procs' = [procs EXCEPT ![p] =
                         [pc |-> "count", user |-> u, event |-> e, tm |-> tm, cnt |-> 0]]
          /\ UNCHANGED <<events, regs, bookmarks, now, last, steps, accounts, signups, auth>>

\* the capacity check on the count read now (lines 78-91)
CreateCount(p) ==
  /\ procs[p].pc = "count"
  /\ LET registrationCount == CountActive(regs, procs[p].event)
     IN  procs' = [procs EXCEPT ![p] =
                     IF CapacityReached(procs[p].event, registrationCount)
                     THEN Idle
                     ELSE [procs[p] EXCEPT !.pc = "insert", !.cnt = registrationCount]]
  /\ UNCHANGED <<events, regs, bookmarks, now, last, steps, accounts, signups, auth>>

\* the response of the rest of the handler: build, then Registration.create
\* on the collection as it is now (lines 93-255)
CreateInsertResponse(p) ==
  LET b == BuildRegistration(procs[p].user, procs[p].event, TRUE, procs[p].tm, <<>>)
  IN  IF b.status # 0
      THEN Response(b.status, b.message, regs)
      ELSE InsertRegistration(regs, b.doc)

CreateInsert(p) ==
  /\ procs[p].pc = "insert"
  /\ Len(CreateInsertResponse(p).regs) <= MaxRegs
  /\ regs' = CreateInsertResponse(p).regs
  /\ procs' = [procs EXCEPT ![p] = Idle]
  /\ UNCHANGED <<events, bookmarks, now, last, steps, accounts, signups, auth>>

\* POST /api/bookmarks up to the existence pre-check (lines 17-50)
BookmarkFind(p, u, e) ==
  /\ procs[p].pc = "idle"
  /\ IF CheckBookmark(bookmarks, u, e).status # 0
     THEN UNCHANGED vars
     ELSE /\ procs' = [procs EXCEPT ![p] =
                         [pc |-> "bookmark", user |-> u, event |-> e, tm |-> <<>>, cnt |-> 0]]
          /\ UNCHANGED <<events, regs, bookmarks, now, last, steps, accounts, signups, auth>>

\* Bookmark.create on the collection as it is now (lines 52-74)
BookmarkInsert(p) ==
  /\ procs[p].pc = "bookmark"
  /\ Cardinality(InsertBookmark(bookmarks, procs[p].user, procs[p].event).bookmarks)
       <= MaxBookmarks
  /\ bookmarks' = InsertBookmark(bookmarks, procs[p].user, procs[p].event).bookmarks
  /\ procs' = [procs EXCEPT ![p] = Idle]
  /\ UNCHANGED <<events, regs, now, last, steps, accounts, signups, auth>>

NextConc ==
  \/ \E p \in Procs, u \in Users, e \in EventIds \cup {UnknownEvent},
        tm \in ConcMemberInputs : CreateFind(p, u, e, tm)
  \/ \E p \in Procs : CreateCount(p)
  \/ \E p \in Procs : CreateInsert(p)
  \/ \E p \in Procs, u \in Users, e \in EventIds \cup {UnknownEvent} : BookmarkFind(p, u, e)
  \/ \E p \in Procs : BookmarkInsert(p)

SpecConc == Init /\ [][NextConc]_vars

\* ---------------------------------------------------------------- event requests, one at a time
\* the bodies of POST /api/events: the required fields, and the optional
\* numbers either unset or at least 1
CreateBodies ==
  [ event_type                 : {"workshop"},
    event_status               : {"draft"},
    registration_mode          : {"team"},
    min_team_size              : {Unset, 1, 2},
    max_team_size              : {Unset, 1, 2},
    max_teams                  : {Unset},
    start_datetime             : Times,
    end_datetime               : Times,
    registration_start_datetime : {0},
    registration_end_datetime   : Times,
    form_fields                : {<<>>} ]

\* one field of a PUT /api/events/:eventId body and a value for it
FieldChoices ==
  {<<"event_type", "workshop">>, <<"event_type", "seminar">>, <<"organizer_id", 3>>,
   <<"event_status", "draft">>, <<"event_status", "published">>,
   <<"event_status", "archived">>,
   <<"max_teams", 0>>, <<"max_teams", 2>>, <<"registration_open", FALSE>>,
   <<"registration_start_datetime", 1>>}
    \cup {<<"start_datetime", t>> : t \in Times}
    \cup {<<"end_datetime", t>> : t \in Times}
    \cup {<<"registration_end_datetime", t>> : t \in Times}

\* the bodies that carry at most n fields
RECURSIVE BodiesUpTo(_)
BodiesUpTo(n) ==
  IF n = 0
  THEN {<<>>}
  ELSE LET smaller == BodiesUpTo(n - 1)
       IN  smaller \cup
           {x[1] @@ (x[2][1] :> x[2][2]) :
              x \in {y \in smaller \X FieldChoices : y[2][1] \notin DOMAIN y[1]}}

UpdateBodies == BodiesUpTo(MaxFields) \ {<<>>}

\* The step of an event handler that answers `res`; a request that leaves the
\* collection as it was is a stuttering step.
EventAnswer(op, res) ==
  /\ steps < MaxEventSteps
  /\ IF res.events = events
     THEN UNCHANGED vars
     ELSE /\ events' = res.events
          /\ last' = op
          /\ steps' = steps + 1
          /\ UNCHANGED <<regs, bookmarks, now, procs, accounts, signups, auth>>

PostEvent(u, body) ==
  /\ Len(events) < MaxEvents
  /\ steps < MaxEventSteps
  /\ EventAnswer("event_create", CreateEvent(u, body))

PutEvent(u, e, body) == EventAnswer("event_update", UpdateEvent(u, e, body))

RemoveEvent(u, e) == EventAnswer("event_delete", DeleteEvent(u, e))

\* registration requests between the event requests
Register(u, e, tm) ==
  /\ Len(regs) < MaxRegs
  /\ steps < MaxEventSteps
  /\ Answer("create", CreateRegistration(u, e, TRUE, tm, <<>>))

Unregister(u, r) ==
  /\ steps < MaxEventSteps
  /\ Answer("cancel", CancelRegistration(u, r))

Clock ==
  /\ steps < MaxEventSteps
  /\ Tick

NextEvents ==
  \/ \E u \in Users, body \in CreateBodies : PostEvent(u, body)
  \/ \E u \in Users, e \in 1..(Len(events) + 1), body \in UpdateBodies : PutEvent(u, e, body)
  \/ \E u \in Users, e \in 1..(Len(events) + 1) : RemoveEvent(u, e)
  \/ \E u \in Users, e \in 1..(Len(events) + 1), tm \in ConcMemberInputs : Register(u, e, tm)
  \/ \E u \in Users, r \in RegIds : Unregister(u, r)
  \/ \E u \in Users, r \in RegIds, action \in {"accept", "decline"} :
        steps < MaxEventSteps /\ Invitation(u, r, action)
  \/ \E u \in Users, r \in RegIds, st \in {"accepted", "declined"} :
        steps < MaxEventSteps /\ MemberStatus(u, r, u, st)
  \/ \E u \in Users, r \in RegIds, toAdd \in ConcMemberInputs :
        steps < MaxEventSteps /\ Add(u, r, toAdd)
  \/ \E u \in Users, r \in RegIds, m \in Users :
        steps < MaxEventSteps /\ Remove(u, r, m)
  \/ Clock

SpecEvents == Init /\ [][NextEvents]_vars

\* ---------------------------------------------------------------- POST /api/auth/register
\* the emails register requests carry: those of the stored accounts and new ones
SignupEmails == {EmailOf(u) : u \in 1..(NumUsers + MaxSignups)}

AccountResponse(code, msg, store) == [status |-> code, message |-> msg, accounts |-> store]

\* User.findOne({ email }) finds a document
EmailTaken(store, mail) == \E i \in 1..Len(store) : store[i].email = mail

\* the existence pre-check on the collection as read
CheckEmail(store, mail) ==
  IF EmailTaken(store, mail)
  THEN AccountResponse(409, "Email already registered", accounts)
  ELSE AccountResponse(0, "", accounts)

\* User.create(userData): the index on email is not unique, the insert succeeds
InsertAccount(store, mail) ==
  AccountResponse(201, "User registered successfully", Append(store, [email |-> mail]))

\* the whole handler when no other request runs between its awaits
RegisterAccount(mail) ==
  IF CheckEmail(accounts, mail).status # 0
  THEN CheckEmail(accounts, mail)
  ELSE InsertAccount(accounts, mail)

\* ---------------------------------------------------------------- interleaved register requests
\* POST /api/auth/register up to the existence pre-check (lines 17-28)
RegisterFind(p, mail) ==
  /\ signups[p] = NoEmail
  /\ IF CheckEmail(accounts, mail).status # 0
     THEN UNCHANGED vars
     ELSE /\ signups' = [signups EXCEPT ![p] = mail]
          /\ UNCHANGED <<events, regs, bookmarks, now, last, steps, procs, accounts, auth>>

\* User.create on the collection as it is now (lines 30-58)
RegisterInsert(p) ==
  /\ signups[p] # NoEmail
  /\ Len(accounts) < MaxAccounts
  /\ accounts' = InsertAccount(accounts, signups[p]).accounts
  /\ signups' = [signups EXCEPT ![p] = NoEmail]
  /\ last' = "register"
  /\ UNCHANGED <<events, regs, bookmarks, now, steps, procs, auth>>

NextAuth ==
  \/ \E p \in Procs, mail \in SignupEmails : RegisterFind(p, mail)
  \/ \E p \in Procs : RegisterInsert(p)

SpecAuth == Init /\ [][NextAuth]_vars

\* ---------------------------------------------------------------- creates that carry form answers
\* field ids a client may submit: those of the forms, and one of no form
SubmittedFieldIds == {"f1", "f2", "f3", "fx"}
AnswerValues == {Value("number", "7"), Value("string", "abc"), Value("string", "")}
FormAnswerInputs ==
  SeqsUpTo([field_id : SubmittedFieldIds, value : AnswerValues], MaxAnswers)

\* POST /api/registrations with form_answers in the body
Submit(u, e, tm, formAnswers) ==
  /\ Len(regs) < MaxAnswerRegs
  /\ steps < MaxSteps
  /\ Answer("create", CreateRegistrationWithAnswers(u, e, TRUE, tm, <<>>, formAnswers))

NextAnswers ==
  \/ \E u \in Users, e \in EventIds, fa \in FormAnswerInputs :
       \E tm \in (IF IsTeamEvent(e) THEN ConcMemberInputs ELSE {<<>>}) :
         Submit(u, e, tm, fa)
  \/ \E u \in Users, r \in RegIds : Cancel(u, r)
  \/ Tick

SpecAnswers == Init /\ [][NextAnswers]_vars

\* ---------------------------------------------------------------- interleaved requests on one team
\* A request on a stored Registration awaits Registration.findById, works on
\* its own copy, and awaits registration.save(), which validates the copy and
\* sends the changes made to it: $set of the fields of the member entries it
\* assigned, by position, $push of the entries it appended, $set of status.

\* Every step of a request counts against the step budget MaxTeamSteps.
\* the request of process p after findById: `orig` is the document as loaded,
\* `doc` the copy after the handler's assignments, `moved` whether the stored
\* array has been pushed to since the load (its version key has advanced)
Loaded(op, r, orig, doc) ==
  [pc |-> op, reg |-> r, orig |-> orig, doc |-> doc, moved |-> FALSE]

\* the handler up to its save, on the store as it is now.  A request that is
\* answered before the save, or whose copy fails validation or has no change,
\* leaves the state as it was.
TeamLoad(p, op, res, r) ==
  /\ steps < MaxTeamSteps
  /\ procs[p].pc = "idle"
  /\ IF res.status # 200 \/ res.regs = regs
     THEN UNCHANGED vars
     ELSE /\ procs' = [procs EXCEPT ![p] = Loaded(op, r, regs[r], res.regs[r])]
          /\ steps' = steps + 1
          /\ UNCHANGED <<events, regs, bookmarks, now, last, accounts, signups, auth>>

\* PUT /:registrationId/invitation up to registration.save() (lines 383-429)
InvitationLoad(p, u, r, action) ==
  TeamLoad(p, "invitation", RespondInvitation(u, r, action), r)

\* PUT /:registrationId/members/:memberId up to registration.save() (lines 721-784)
StatusLoad(p, u, r, st) ==
  TeamLoad(p, "member_status", UpdateMemberStatus(u, r, u, st), r)

\* POST /:registrationId/members up to registration.save() (lines 457-527)
AddLoad(p, u, r, toAdd) ==
  TeamLoad(p, "add", AddMembers(u, r, toAdd), r)

\* the entries the copy appended
Pushed(orig, doc) == SubSeq(doc.members, Len(orig.members) + 1, Len(doc.members))

\* TRUE when the copy assigned a field of an entry that was loaded: the update
\* then carries the loaded version key in its filter
SetsByPosition(orig, doc) ==
  \E i \in 1..Len(orig.members) : doc.members[i] # orig.members[i]

\* the stored document after the update that save() sends
ApplyDelta(stored, orig, doc) ==
  [ stored EXCEPT
      !.status  = IF doc.status # orig.status THEN doc.status ELSE @,
      !.members =
        [i \in 1..Len(stored.members) |->
           IF i <= Len(orig.members) /\ doc.members[i] # orig.members[i]
           THEN [stored.members[i] EXCEPT
                   !.invite_status = doc.members[i].invite_status,
                   !.responded_at  = doc.members[i].responded_at]
           ELSE stored.members[i]]
        \o Pushed(orig, doc) ]

\* registration.save() of process p.  An update filtered by a version key
\* that has advanced matches no document and save() throws VersionError,
\* which the handler answers with 500.
TeamSave(p) ==
  /\ steps < MaxTeamSteps
  /\ procs[p].pc \in {"invitation", "member_status", "add"}
  /\ LET r    == procs[p].reg
         orig == procs[p].orig
         doc  == procs[p].doc
     IN  IF SetsByPosition(orig, doc) /\ procs[p].moved
         THEN /\ procs' = [procs EXCEPT ![p] = Idle]
              /\ steps' = steps + 1
              /\ UNCHANGED <<events, regs, bookmarks, now, last, accounts, signups, auth>>
         ELSE /\ regs' = [regs EXCEPT ![r] = ApplyDelta(regs[r], orig, doc)]
              /\ procs' = [q \in Procs |->
                             IF q = p THEN Idle
                             ELSE IF /\ procs[q].pc \in {"invitation", "member_status", "add"}
                                     /\ procs[q].reg = r
                                     /\ Pushed(orig, doc) # <<>>
                             THEN [procs[q] EXCEPT !.moved = TRUE]
                             ELSE procs[q]]
              /\ last' = procs[p].pc
              /\ steps' = steps + 1
              /\ UNCHANGED <<events, bookmarks, now, accounts, signups, auth>>

\* POST /api/registrations for the team event
Form(u, tm) ==
  /\ Len(regs) < MaxTeamRegs
  /\ Create(u, 1, TRUE, tm, <<>>)

\* the team event asks for two or for three members
InitTeams ==
  /\ \E m \in {2, 3} : events = [EventTable EXCEPT ![1].min_team_size = m]
  /\ regs = <<>>
  /\ bookmarks = {}
  /\ now = 0
  /\ last = "none"
  /\ steps = 0
  /\ procs = [p \in Procs |-> Idle]
  /\ accounts = [u \in Users |-> [email |-> EmailOf(u)]]
  /\ signups = [p \in Procs |-> NoEmail]
  /\ auth = initialState(NoToken)

NextTeams ==
  \/ \E u \in Users, tm \in TeamMemberInputs : Form(u, tm)
  \/ \E p \in Procs, u \in Users, r \in RegIds, action \in {"accept", "decline"} :
       InvitationLoad(p, u, r, action)
  \/ \E p \in Procs, u \in Users, r \in RegIds, st \in {"accepted", "declined"} :
       StatusLoad(p, u, r, st)
  \/ \E p \in Procs, u \in Users, r \in RegIds, toAdd \in ConcMemberInputs :
       AddLoad(p, u, r, toAdd)
  \/ \E p \in Procs : TeamSave(p)

SpecTeams == InitTeams /\ [][NextTeams]_vars

\* ---------------------------------------------------------------- dispatches to the auth reducer
\* a payload that carries no value
NoPayload == <<"payload", 0>>
FailureTypes == {"LOGIN_FAILURE", "REGISTER_FAILURE", "LOAD_USER_FAILURE"}
\* the actions the provider dispatches; a success payload carries an account
AuthActions ==
  [type : {"LOGIN_START", "REGISTER_START", "LOAD_USER_START", "REGISTER_SUCCESS",
           "LOGOUT", "CLEAR_ERROR", "UNKNOWN"}, payload : {NoPayload}]
  \cup [type : {"LOGIN_SUCCESS"}, payload : [user : Users, token : Tokens]]
  \cup [type : {"LOAD_USER_SUCCESS"}, payload : [user : Users]]
  \cup [type : FailureTypes, payload : Errors]

\* dispatch(action): the state becomes authReducer(state, action)
Dispatch(action) ==
  /\ auth' = authReducer(auth, action)
  /\ last' = action.type
  /\ UNCHANGED <<events, regs, bookmarks, now, steps, procs, accounts, signups>>

\* useReducer(authReducer, initialState), with or without a stored token
InitAuthContext ==
  /\ events = EventTable
  /\ regs = <<>>
  /\ bookmarks = {}
  /\ now = 0
  /\ last = "none"
  /\ steps = 0
  /\ procs = [p \in Procs |-> Idle]
  /\ accounts = [u \in Users |-> [email |-> EmailOf(u)]]
  /\ signups = [p \in Procs |-> NoEmail]
  /\ \E stored \in Tokens \cup {NoToken} : auth = initialState(stored)

NextAuthContext == \E action \in AuthActions : Dispatch(action)

SpecAuthContext == InitAuthContext /\ [][NextAuthContext]_vars

\* ================================================================ properties
TeamEvents == {e \in EventIds : events[e].registration_mode = "team"}
TeamRegs == {r \in DOMAIN regs : regs[r].mode = "team"}
MemberIds == Users \cup {UnknownId}

AcceptedInRange(doc) ==
  /\ AcceptedCount(doc.members) >= events[doc.event_id].min_team_size
  /\ AcceptedCount(doc.members) <= events[doc.event_id].max_team_size

\* at most one Registration per (event, leader)
UniquePair ==
  \A i, j \in DOMAIN regs :
    (regs[i].event_id = regs[j].event_id /\ regs[i].leader_user_id = regs[j].leader_user_id)
      => i = j

\* C1 as stated: at most one Registration exists per (event, leader), and a
\* create by an account that already has a Registration for the event is
\* answered 409 Conflict and adds no record.
C1_DuplicateAlwaysConflict ==
  /\ UniquePair
  /\ \A u \in Users, e \in EventIds :
       HasRegistration(regs, e, u) =>
         \A named \in NameInputs(e), tm \in MemberInputs(e), tmi \in InfoInputs(e) :
           LET res == CreateRegistration(u, e, named, tm, tmi)
           IN  res.status = 409 /\ res.regs = regs

\* C1 amended: at most one Registration exists per (event, leader); a create by
\* an account that already has one for the event never succeeds and adds no
\* record, and it is answered 409 Conflict whenever the event passes the checks
\* that come first (published or ongoing, open, inside the registration window).
C1_DuplicateRejected ==
  /\ UniquePair
  /\ \A u \in Users, e \in EventIds :
       HasRegistration(regs, e, u) =>
         \A named \in NameInputs(e), tm \in MemberInputs(e), tmi \in InfoInputs(e) :
           LET res == CreateRegistration(u, e, named, tm, tmi)
           IN  /\ res.status \in {400, 409}
               /\ res.regs = regs
               /\ CheckEvent(e).status = 0 => res.status = 409

\* C1 witness: a leader holds a Registration for an event that is still open,
\* and the leader's second create is answered 409.
C1_Witness ==
  \E u \in Users, e \in EventIds :
    /\ HasRegistration(regs, e, u)
    /\ last = "create"
    /\ CreateRegistration(u, e, TRUE, <<>>, <<>>).status = 409

\* C2: every stored team Registration has between min_team_size and
\* max_team_size members (any invite status), and a create whose assembled
\* member list is outside these bounds is refused and stores nothing.
C2_TeamSizeBounds ==
  /\ \A r \in TeamRegs :
       /\ Len(regs[r].members) >= events[regs[r].event_id].min_team_size
       /\ Len(regs[r].members) <= events[regs[r].event_id].max_team_size
  /\ \A u \in Users, e \in TeamEvents, named \in BOOLEAN,
        tm \in TeamMemberInputs, tmi \in TeamInfoInputs :
       LET size == Len(BuildMembers(u, tm, tmi))
           res  == CreateRegistration(u, e, named, tm, tmi)
       IN  (size < events[e].min_team_size \/ size > events[e].max_team_size)
             => (res.status # 201 /\ res.regs = regs)

\* C2 witness: a remove-member has just succeeded and left a team at exactly
\* min_team_size members.
C2_Witness ==
  /\ last = "remove"
  /\ \E r \in TeamRegs : Len(regs[r].members) = events[regs[r].event_id].min_team_size

\* C3 as stated: every successful accept, through either response endpoint,
\* that leaves the accepted count within [min_team_size, max_team_size] leaves
\* the Registration confirmed, and a decline never sets the status to confirmed.
C3_PromotionExactlyOnAccept ==
  \A u \in Users, r \in TeamRegs :
    /\ (/\ RespondInvitation(u, r, "accept").status = 200
        /\ AcceptedInRange(RespondInvitation(u, r, "accept").regs[r]))
         => RespondInvitation(u, r, "accept").regs[r].status = "confirmed"
    /\ (/\ UpdateMemberStatus(u, r, u, "accepted").status = 200
        /\ AcceptedInRange(UpdateMemberStatus(u, r, u, "accepted").regs[r]))
         => UpdateMemberStatus(u, r, u, "accepted").regs[r].status = "confirmed"
    /\ RespondInvitation(u, r, "decline").regs[r].status = "confirmed"
         => regs[r].status = "confirmed"
    /\ UpdateMemberStatus(u, r, u, "declined").regs[r].status = "confirmed"
         => regs[r].status = "confirmed"

\* C4 as stated: a response, through either endpoint, on a member entry that is
\* already accepted or declined is refused and leaves the Registration unchanged.
C4_AnsweredOnce ==
  \A u \in Users, r \in DOMAIN regs :
    (/\ FindMember(regs[r].members, u) # 0
     /\ regs[r].members[FindMember(regs[r].members, u)].invite_status
          \in {"accepted", "declined"})
      => /\ \A action \in {"accept", "decline"} :
              /\ RespondInvitation(u, r, action).status \in {400, 409}
              /\ RespondInvitation(u, r, action).regs = regs
         /\ \A st \in {"accepted", "declined"} :
              /\ UpdateMemberStatus(u, r, u, st).status \in {400, 409}
              /\ UpdateMemberStatus(u, r, u, st).regs = regs

\* C5 as stated: a cancelled or rejected Registration keeps its status through
\* every step, and a confirmed Registration never returns to pending.
C5_StatusNeverBackward ==
  [][\A r \in DOMAIN regs :
       /\ regs[r].status \in {"cancelled", "rejected"} => regs'[r].status = regs[r].status
       /\ regs[r].status = "confirmed" => regs'[r].status # "pending"]_vars

\* C6 as stated: every team Registration has exactly one leader entry, which
\* names the leader account and stays auto_added, and no other entry is
\* auto_added.
C6_LeaderEntryFixed ==
  \A r \in TeamRegs :
    /\ Cardinality({i \in 1..Len(regs[r].members) : regs[r].members[i].role = "leader"}) = 1
    /\ \A i \in 1..Len(regs[r].members) :
         IF regs[r].members[i].role = "leader"
         THEN /\ regs[r].members[i].user_id = regs[r].leader_user_id
              /\ regs[r].members[i].invite_status = "auto_added"
         ELSE regs[r].members[i].invite_status # "auto_added"

\* C7 as stated: with requests handled one at a time, the Registrations of an
\* event that are pending or confirmed never outnumber its max_teams.
C7_CapacityNeverExceeded ==
  \A e \in EventIds :
    events[e].max_teams # 0 => CountActive(regs, e) <= events[e].max_teams

\* C8: the capacity check and the insert are separate steps.  The active
\* Registrations of an event come to outnumber max_teams only by the insert
\* of a create whose count was read before another create inserted; the
\* witness is the state two such creates leave.
C8_OverflowOnlyByStaleCount ==
  [][\A e \in EventIds :
       (/\ events[e].max_teams # 0
        /\ CountActive(regs, e) <= events[e].max_teams
        /\ CountActive(regs', e) > events[e].max_teams)
         => \E p \in Procs :
              /\ procs[p].pc = "insert" /\ procs'[p].pc = "idle"
              /\ procs[p].event = e
              /\ procs[p].cnt < events[e].max_teams
              /\ procs[p].cnt < CountActive(regs, e)]_vars

\* C8 witness: two creates have both passed the count check and both inserted,
\* and the event holds more active Registrations than max_teams.
C8_Witness ==
  \E e \in EventIds :
    /\ events[e].max_teams # 0
    /\ CountActive(regs, e) > events[e].max_teams
    /\ \A p \in Procs : procs[p].pc = "idle"

\* C9 as stated: a request that passed the existence pre-check and finds the
\* pair stored when it inserts is answered 409 Conflict and stores nothing, for
\* registrations and for bookmarks alike, and each pair is stored once.
C9_LoserGetsConflict ==
  /\ UniquePair
  /\ \A p \in Procs :
       /\ (/\ procs[p].pc = "insert"
           /\ HasRegistration(regs, procs[p].event, procs[p].user))
            => /\ CreateInsertResponse(p).status = 409
               /\ CreateInsertResponse(p).regs = regs
       /\ (/\ procs[p].pc = "bookmark"
           /\ <<procs[p].user, procs[p].event>> \in bookmarks)
            => /\ InsertBookmark(bookmarks, procs[p].user, procs[p].event).status = 409
               /\ InsertBookmark(bookmarks, procs[p].user, procs[p].event).bookmarks
                    = bookmarks

\* C10: remove-member leaves the leader entry in place, and refuses to remove
\* an accepted or auto_added member, leaving the Registration unchanged, while
\* the count of accepted and auto_added members is at most min_team_size.
C10_RemoveGuard ==
  \A u \in Users, r \in DOMAIN regs, m \in MemberIds :
    /\ \A i \in 1..Len(regs[r].members) :
         regs[r].members[i].role = "leader" =>
           \E j \in 1..Len(RemoveMember(u, r, m).regs[r].members) :
             RemoveMember(u, r, m).regs[r].members[j] = regs[r].members[i]
    /\ (/\ FindMember(regs[r].members, m) # 0
        /\ regs[r].members[FindMember(regs[r].members, m)].invite_status
             \in {"accepted", "auto_added"}
        /\ AcceptedCount(regs[r].members) <= events[regs[r].event_id].min_team_size)
         => /\ RemoveMember(u, r, m).status # 200
            /\ RemoveMember(u, r, m).regs = regs

\* C10 witness: the leader asks to remove an accepted member of a team whose
\* accepted count equals min_team_size, and is refused on that ground.
C10_Witness ==
  \E r \in TeamRegs, m \in Users :
    /\ FindMember(regs[r].members, m) # 0
    /\ regs[r].members[FindMember(regs[r].members, m)].invite_status = "accepted"
    /\ AcceptedCount(regs[r].members) = events[regs[r].event_id].min_team_size
    /\ RemoveMember(regs[r].leader_user_id, r, m).message = "Cannot remove accepted member"

\* the positions of members_to_add that name an account which is not in the
\* team and is not named earlier in the list
FreshIndexes(members, toAdd) ==
  {i \in 1..Len(toAdd) :
     /\ toAdd[i] \in Users
     /\ FindMember(members, toAdd[i]) = 0
     /\ \A j \in 1..(i - 1) : toAdd[j] # toAdd[i]}

\* C11: add-member is refused to every caller but the leader.  For the leader
\* it keeps the stored entries, skips the supplied accounts already in the
\* team, and appends one entry (role member, invite_status invited) for each
\* other resolvable account; when the resulting member count would exceed
\* max_team_size it answers 400 and leaves the stored Registration unchanged.
C11_AddAllOrNothing ==
  \A u \in Users, r \in DOMAIN regs, toAdd \in TeamMemberInputs \ {<<>>} :
    LET res   == AddMembers(u, r, toAdd)
        old   == regs[r].members
        fresh == FreshIndexes(old, toAdd)
    IN  IF u # regs[r].leader_user_id
        THEN res.status = 403 /\ res.regs = regs
        ELSE IF Len(old) + Cardinality(fresh) > events[regs[r].event_id].max_team_size
        THEN res.status = 400 /\ res.regs = regs
        ELSE /\ res.status = 200
             /\ res.regs = [regs EXCEPT ![r].members = res.regs[r].members]
             /\ Len(res.regs[r].members) = Len(old) + Cardinality(fresh)
             /\ \A i \in 1..Len(old) : res.regs[r].members[i] = old[i]
             /\ \A i \in (Len(old) + 1)..Len(res.regs[r].members) :
                  /\ res.regs[r].members[i].role = "member"
                  /\ res.regs[r].members[i].invite_status = "invited"
                  /\ \E k \in fresh : res.regs[r].members[i].user_id = toAdd[k]
             /\ \A k \in fresh : FindMember(res.regs[r].members, toAdd[k]) > Len(old)

\* C11 witness: an add-member has just stored a new entry, and a further add
\* by the leader that names a present account and a new one is refused because
\* the team would exceed max_team_size.
C11_Witness ==
  /\ last = "add"
  /\ \E r \in DOMAIN regs, toAdd \in TeamMemberInputs :
       /\ \E i \in 1..Len(toAdd) : FindMember(regs[r].members, toAdd[i]) # 0
       /\ FreshIndexes(regs[r].members, toAdd) # {}
       /\ AddMembers(regs[r].leader_user_id, r, toAdd).status = 400
       /\ AddMembers(regs[r].leader_user_id, r, toAdd).regs = regs

\* the accounts named by the member entries of a Registration
MembersOf(doc) == {doc.members[i].user_id : i \in 1..Len(doc.members)}

\* C12: a cancel by the leader, by any account listed in the members, or by an
\* administrator answers 200 and sets the status to cancelled, changing nothing
\* else; a cancel by any other caller answers 403 and leaves the store as it was.
C12_CancelAuthorization ==
  \A u \in Users, r \in DOMAIN regs :
    LET res == CancelRegistration(u, r)
    IN  IF \/ u = regs[r].leader_user_id
           \/ u \in MembersOf(regs[r])
           \/ Role(u) = "admin"
        THEN /\ res.status = 200
             /\ res.regs = [regs EXCEPT ![r].status = "cancelled"]
        ELSE /\ res.status = 403
             /\ res.regs = regs

\* C12 witness: a cancel has just set a Registration to cancelled, an invited
\* member who is neither leader nor administrator may cancel a Registration,
\* and an account outside a Registration is refused.
C12_Witness ==
  /\ last = "cancel"
  /\ \E r \in DOMAIN regs : regs[r].status = "cancelled"
  /\ \E u \in Users, r \in DOMAIN regs :
       /\ Role(u) # "admin" /\ u # regs[r].leader_user_id
       /\ u \in MembersOf(regs[r])
       /\ CancelRegistration(u, r).status = 200
  /\ \E u \in Users, r \in DOMAIN regs : CancelRegistration(u, r).status = 403

\* C13: while an event is published or ongoing, every update request whose body
\* names a different event_type or names an organizer is refused and leaves the
\* Event collection as it was, and no step changes the event_type or the
\* organizer of such an event.
C13_LockedAfterPublication ==
  /\ [](\A u \in Users, e \in DOMAIN events, body \in UpdateBodies :
          (/\ events[e].event_status \in {"published", "ongoing"}
           /\ \/ "event_type" \in DOMAIN body /\ body.event_type # events[e].event_type
              \/ "organizer_id" \in DOMAIN body)
            => /\ UpdateEvent(u, e, body).status \in {400, 403}
               /\ UpdateEvent(u, e, body).events = events)
  /\ [][\A e \in DOMAIN events :
          events[e].event_status \in {"published", "ongoing"}
            => /\ events'[e].event_type = events[e].event_type
               /\ events'[e].organizer_id = events[e].organizer_id]_vars

\* C13 witness: an update has just been stored, the organizer of a published
\* event is refused a new event_type and a new organizer on that ground, and
\* the same body is accepted for a draft event.
C13_Witness ==
  /\ last = "event_update"
  /\ \E e \in DOMAIN events :
       /\ events[e].event_status = "published"
       /\ UpdateEvent(events[e].organizer_id, e, "event_type" :> "seminar").message
            = "Cannot change field after publication"
       /\ UpdateEvent(events[e].organizer_id, e, "organizer_id" :> 3).message
            = "Cannot change field after publication"
  /\ \E e \in DOMAIN events :
       /\ events[e].event_status = "draft"
       /\ UpdateEvent(events[e].organizer_id, e, "event_type" :> "seminar").status = 200

\* end after start, registration end before start, max_team_size at least
\* min_team_size
DatesAndSizesOrdered(ev) ==
  /\ ev.end_datetime > ev.start_datetime
  /\ ev.registration_end_datetime < ev.start_datetime
  /\ ev.max_team_size >= ev.min_team_size

\* C14: every stored Event has end_datetime > start_datetime,
\* registration_end_datetime < start_datetime and max_team_size >=
\* min_team_size, after creates and after updates alike, and a create whose
\* event would violate one of them is refused and stores nothing.
C14_EventInvariants ==
  /\ \A e \in DOMAIN events : DatesAndSizesOrdered(events[e])
  /\ \A body \in {b \in CreateBodies : ~DatesAndSizesOrdered(NewEvent(1, b))} :
       \A u \in Users :
         LET res == CreateEvent(u, body)
         IN  res.status \in {400, 403} /\ res.events = events

\* C14 witness: an event has been created, and updates have moved the start of
\* one of the initial events.
C14_Witness ==
  /\ last = "event_update"
  /\ Len(events) > Len(EventTable)
  /\ \E e \in DOMAIN EventTable :
       events[e].start_datetime # EventTable[e].start_datetime

\* C15: with requests handled one at a time the bookmark store is a set of
\* (account, event) pairs: adding an absent pair answers 201 and inserts it,
\* adding a present pair answers 409 and changes nothing, removing a present
\* pair answers 200 and deletes it, removing an absent pair answers 404 and
\* changes nothing, and the existence check is true exactly for the stored pairs.
C15_BookmarkSet ==
  \A u \in Users, e \in EventIds :
    /\ IsBookmarked(u, e) <=> <<u, e>> \in bookmarks
    /\ IF <<u, e>> \in bookmarks
       THEN /\ AddBookmark(u, e).status = 409
            /\ AddBookmark(u, e).bookmarks = bookmarks
            /\ RemoveBookmark(u, e).status = 200
            /\ RemoveBookmark(u, e).bookmarks = bookmarks \ {<<u, e>>}
       ELSE /\ AddBookmark(u, e).status = 201
            /\ AddBookmark(u, e).bookmarks = bookmarks \cup {<<u, e>>}
            /\ RemoveBookmark(u, e).status = 404
            /\ RemoveBookmark(u, e).bookmarks = bookmarks

\* C15 witness: pairs have been added and one has just been removed, leaving a
\* single stored pair.
C15_Witness ==
  /\ last = "bookmark_remove"
  /\ Cardinality(bookmarks) = 1

\* the accounts the Registration is meant to be visible to: the event's
\* organizer, the leader, the accepted and auto_added members, administrators
MayView(u, doc) ==
  \/ events[doc.event_id].organizer_id = u
  \/ doc.leader_user_id = u
  \/ Role(u) = "admin"
  \/ \E i \in 1..Len(doc.members) :
       /\ doc.members[i].user_id = u
       /\ doc.members[i].invite_status \in {"accepted", "auto_added"}

\* C16 as stated: list and get-by-id show a Registration only to the event's
\* organizer, the leader, the accepted or auto_added members and
\* administrators; an account that is only an invited or declined member is
\* refused by get-by-id and does not find the Registration in its lists.
C16_VisibleToParticipantsOnly ==
  \A u \in Users, r \in DOMAIN regs :
    ~MayView(u, regs[r])
      => /\ GetRegistration(u, r) = 403
         /\ r \notin ListRegistrations(u, NoEventQuery, AnyStatus).ids
         /\ r \notin ListRegistrations(u, regs[r].event_id, AnyStatus).ids

\* C17 as stated: no two Account records share an email, and a register
\* request for an email that is already stored is answered 409 and creates no
\* account, also when the requests run concurrently.
C17_EmailUnique ==
  /\ \A i, j \in DOMAIN accounts : accounts[i].email = accounts[j].email => i = j
  /\ \A p \in Procs :
       (signups[p] # NoEmail /\ EmailTaken(accounts, signups[p]))
         => /\ InsertAccount(accounts, signups[p]).status = 409
            /\ InsertAccount(accounts, signups[p]).accounts = accounts
  /\ \A mail \in SignupEmails :
       EmailTaken(accounts, mail)
         => /\ RegisterAccount(mail).status = 409
            /\ RegisterAccount(mail).accounts = accounts

\* C18: no step removes an Event or a Registration document: both collections
\* keep every document they hold, and a successful delete request changes
\* nothing but event_status, respectively status, which it sets to cancelled.
C18_NoRecordRemoved ==
  /\ [](/\ \A u \in Users, e \in DOMAIN events :
             DeleteEvent(u, e).status = 200
               => DeleteEvent(u, e).events = [events EXCEPT ![e].event_status = "cancelled"]
        /\ \A u \in Users, r \in DOMAIN regs :
             CancelRegistration(u, r).status = 200
               => CancelRegistration(u, r).regs = [regs EXCEPT ![r].status = "cancelled"])
  /\ [][/\ DOMAIN events \subseteq DOMAIN events'
        /\ DOMAIN regs \subseteq DOMAIN regs'
        /\ \A r \in DOMAIN regs :
             /\ regs'[r].event_id = regs[r].event_id
             /\ regs'[r].leader_user_id = regs[r].leader_user_id]_vars

\* C18 witness: a Registration has been cancelled and an event has just been
\* deleted; both documents are still stored, with status cancelled.
C18_Witness ==
  /\ last = "event_delete"
  /\ \E e \in DOMAIN events : events[e].event_status = "cancelled"
  /\ \E r \in DOMAIN regs : regs[r].status = "cancelled"

\* the preconditions of create-registration in their stated order, each TRUE
\* when it fails for caller u and event id e
PreconditionFails(u, e) ==
  IF e \notin DOMAIN events
  THEN <<TRUE, FALSE, FALSE, FALSE, FALSE, FALSE, FALSE>>
  ELSE << FALSE,
          events[e].event_status \notin {"published", "ongoing"},
          ~events[e].registration_open,
          now < events[e].registration_start_datetime,
          now > events[e].registration_end_datetime,
          HasRegistration(regs, e, u),
          events[e].max_teams # 0 /\ CountActive(regs, e) >= events[e].max_teams >>

\* the failure each precondition answers with
PreconditionFailure ==
  << [status |-> 404, message |-> "Event not found"],
     [status |-> 400, message |-> "Registration is not open for this event"],
     [status |-> 400, message |-> "Registration is currently closed"],
     [status |-> 400, message |-> "Registration has not started yet"],
     [status |-> 400, message |-> "Registration deadline has passed"],
     [status |-> 409, message |-> "You are already registered for this event"],
     [status |-> 400, message |-> "Event has reached maximum capacity"] >>

\* C19: create-registration answers with the failure of the first precondition
\* that fails, in the order event exists, event published or ongoing,
\* registration open, now >= registration start, now <= registration end, no
\* Registration of the caller for the event, capacity; the failures are
\* pairwise distinct, a failing create stores nothing, and when no
\* precondition fails the answer is none of these failures.
C19_FirstFailureWins ==
  /\ \A i, j \in DOMAIN PreconditionFailure :
       PreconditionFailure[i].message = PreconditionFailure[j].message => i = j
  /\ \A u \in Users, e \in 1..(Len(events) + 1), tm \in ConcMemberInputs :
       LET res    == CreateRegistration(u, e, TRUE, tm, <<>>)
           fails  == PreconditionFails(u, e)
           failed == {i \in DOMAIN fails : fails[i]}
       IN  IF failed # {}
           THEN LET first == CHOOSE i \in failed : \A j \in failed : i <= j
                IN  /\ res.status = PreconditionFailure[first].status
                    /\ res.message = PreconditionFailure[first].message
                    /\ res.regs = regs
           ELSE \A i \in DOMAIN PreconditionFailure :
                  res.message # PreconditionFailure[i].message

\* C19 witness: for some caller and event the status, the deadline, the
\* existing Registration and the capacity all fail at once, and for some event
\* the clock stands on the registration end and a create succeeds.
C19_Witness ==
  /\ \E u \in Users, e \in DOMAIN events :
       /\ PreconditionFails(u, e)[2] /\ PreconditionFails(u, e)[5]
       /\ PreconditionFails(u, e)[6] /\ PreconditionFails(u, e)[7]
  /\ \E u \in Users, e \in DOMAIN events, tm \in ConcMemberInputs :
       /\ now = events[e].registration_end_datetime
       /\ CreateRegistration(u, e, TRUE, tm, <<>>).status = 201

\* C20 as stated: a team create that passes the preconditions with a member
\* list of admissible size succeeds and stores a pending Registration whose
\* members are the leader (role leader, auto_added) followed by one entry per
\* submitted invitee other than the leader: invited with an account reference
\* when the id or email resolves, pending_registration without one when the
\* email resolves to no account.
C20_TeamCreateStoresInvitees ==
  \A u \in Users, e \in TeamEvents, tm \in SeqsUpTo(Users, MaxInput), tmi \in TeamInfoInputs :
    LET res     == CreateRegistration(u, e, TRUE, tm, tmi)
        members == BuildMembers(u, tm, tmi)
    IN  (/\ CheckEvent(e).status = 0
         /\ ~HasRegistration(regs, e, u)
         /\ ~CapacityReached(e, CountActive(regs, e))
         /\ Len(members) >= events[e].min_team_size
         /\ Len(members) <= events[e].max_team_size)
          => /\ res.status = 201
             /\ res.regs = Append(regs, NewRegistration(u, e, members))
             /\ members[1] = Member(u, "leader", "auto_added")
             /\ \A i \in 2..Len(members) :
                  /\ members[i].role = "member"
                  /\ members[i].user_id # u
                  /\ IF members[i].user_id \in Users
                     THEN members[i].invite_status = "invited"
                     ELSE /\ members[i].user_id = NoUserId
                          /\ members[i].invite_status = "pending_registration"

\* C21 as stated: for the leader, remove-member of an entry whose invite_status
\* is invited or declined answers 200 whatever the size and the accepted count
\* of the team, and deletes exactly that entry.
C21_InvitedAlwaysRemovable ==
  \A r \in DOMAIN regs, m \in Users :
    LET i == FindMember(regs[r].members, m)
    IN  (/\ i # 0
         /\ regs[r].members[i].role # "leader"
         /\ regs[r].members[i].invite_status \in {"invited", "declined"})
          => /\ RemoveMember(regs[r].leader_user_id, r, m).status = 200
             /\ RemoveMember(regs[r].leader_user_id, r, m).regs
                  = [regs EXCEPT ![r].members = RemoveAt(regs[r].members, i)]

\* the position of a status on the chain draft, published, ongoing, completed
StatusRank(s) ==
  CASE s = "draft" -> 1
    [] s = "published" -> 2
    [] s = "ongoing" -> 3
    [] s = "completed" -> 4
    [] OTHER -> 5

\* C22 as stated: every step keeps the status of each event or moves it forward
\* along draft, published, ongoing, completed, or to cancelled; an event that
\* is cancelled or completed keeps its status.
C22_EventStatusForwardOnly ==
  [][\A e \in DOMAIN events :
       \/ events'[e].event_status = events[e].event_status
       \/ /\ events[e].event_status \notin {"cancelled", "completed"}
          /\ \/ events'[e].event_status = "cancelled"
             \/ StatusRank(events'[e].event_status) > StatusRank(events[e].event_status)]_vars

\* the submitted answers whose field id names a field of the form, in order
MatchedAnswers(fields, formAnswers) ==
  SelectSeq(formAnswers,
            LAMBDA a : \E i \in 1..Len(fields) : fields[i].field_id = a.field_id)

\* the slot the type of a field selects
SlotOf(field) ==
  IF field.field_type = "number" THEN "value_number"
  ELSE IF field.field_type = "date" THEN "value_date"
  ELSE "value_text"

\* the stored answer carries the field's id and label, and the submitted value
\* in the slot of the field's type and in no other slot
StoredAs(stored, field, answer) ==
  /\ stored.field_id = answer.field_id
  /\ stored.field_label = field.label
  /\ \A slot \in {"value_text", "value_number", "value_date"} :
       IF slot = SlotOf(field)
       THEN stored[slot] # NoValue /\ stored[slot].repr = answer.value.repr
       ELSE stored[slot] = NoValue

FieldNamed(fields, id) ==
  CHOOSE f \in {fields[i] : i \in 1..Len(fields)} : f.field_id = id

\* C23: a create that succeeds stores exactly the submitted answers whose
\* field id matches a field of the event's form, in submission order, each with
\* the field's label and its value in the one slot of the field's type
\* (value_number, value_date, else value_text); answers of unknown fields are
\* dropped and do not change the outcome of the create.
C23_MatchedAnswersStored ==
  \A u \in Users, e \in EventIds, fa \in FormAnswerInputs :
    \A tm \in (IF IsTeamEvent(e) THEN ConcMemberInputs ELSE {<<>>}) :
      LET res    == CreateRegistrationWithAnswers(u, e, TRUE, tm, <<>>, fa)
          fields == events[e].form_fields
          kept   == MatchedAnswers(fields, fa)
          alone  == CreateRegistrationWithAnswers(u, e, TRUE, tm, <<>>, kept)
      IN  /\ res.status = alone.status
          /\ res.status = 201 =>
               LET stored == res.regs[Len(res.regs)].answers
               IN  /\ Len(stored) = Len(kept)
                   /\ \A i \in 1..Len(kept) :
                        StoredAs(stored[i], FieldNamed(fields, kept[i].field_id), kept[i])

\* a registration is stored with an answer in the number slot, and a create
\* that submits one answer of a known field after one of an unknown field
\* succeeds
C23_Witness ==
  /\ \E r \in DOMAIN regs :
       /\ Len(regs[r].answers) = 2
       /\ regs[r].answers[1].value_number # NoValue
       /\ regs[r].answers[2].value_text # NoValue
  /\ \E u \in Users :
       LET fa  == << [field_id |-> "fx", value |-> Value("string", "abc")],
                     [field_id |-> "f3", value |-> Value("number", "7")] >>
           res == CreateRegistrationWithAnswers(u, 2, TRUE, <<>>, <<>>, fa)
       IN  /\ res.status = 201
           /\ Len(res.regs[Len(res.regs)].answers) = 1

\* the member list after account `u` answered with status `st`: the entry of
\* `u` carries the status and the response timestamp, every other entry is as
\* it was
OwnEntryAnswered(members, u, st) ==
  [i \in 1..Len(members) |->
     IF i = FindMember(members, u)
     THEN [members[i] EXCEPT !.invite_status = st, !.responded_at = TRUE]
     ELSE members[i]]

\* C24 as stated: a successful invitation response by an account, through
\* either response endpoint, changes only that account's own member entry,
\* setting its invite_status to accepted or declined and stamping its response
\* timestamp, and leaves every other member entry unchanged; a request aimed at
\* another account's entry is rejected and changes nothing.
C24_ResponseTouchesOwnEntry ==
  \A u \in Users, r \in DOMAIN regs :
    /\ \A action \in {"accept", "decline"} :
         LET res == RespondInvitation(u, r, action)
         IN  res.status = 200 =>
               res.regs[r].members =
                 OwnEntryAnswered(regs[r].members, u,
                                  IF action = "accept" THEN "accepted" ELSE "declined")
    /\ \A m \in Users, st \in {"accepted", "declined"} :
         LET res == UpdateMemberStatus(u, r, m, st)
         IN  /\ res.status = 200 =>
                 res.regs[r].members = OwnEntryAnswered(regs[r].members, u, st)
             /\ m # u => res.status # 200 /\ res.regs = regs

\* C25 as stated: every team Registration with status confirmed has a count of
\* accepted and auto_added members within [min_team_size, max_team_size] of
\* its event, after any sequence of responses, member adds and member removes.
C25_ConfirmedWithinSize ==
  \A r \in DOMAIN regs :
    (regs[r].mode = "team" /\ regs[r].status = "confirmed")
      => /\ AcceptedCount(regs[r].members) >= events[regs[r].event_id].min_team_size
         /\ AcceptedCount(regs[r].members) <= events[regs[r].event_id].max_team_size

\* C26 as stated: no account appears in more than one member entry of the same
\* Registration, after a create with any submitted member lists and after any
\* sequence of add-member operations.
C26_NoAccountTwice ==
  \A r \in DOMAIN regs :
    \A i, j \in 1..Len(regs[r].members) :
      regs[r].members[i].user_id = regs[r].members[j].user_id => i = j

\* C27 as stated: when invited members of one team Registration accept
\* concurrently, then once every request has completed and the count of
\* accepted and auto_added members is within [min_team_size, max_team_size],
\* the Registration is confirmed.
C27_ConcurrentAcceptsConfirm ==
  \A r \in DOMAIN regs :
    (/\ \A p \in Procs : procs[p].pc = "idle"
     /\ \E i \in 1..Len(regs[r].members) : regs[r].members[i].invite_status = "accepted"
     /\ AcceptedCount(regs[r].members) >= events[regs[r].event_id].min_team_size
     /\ AcceptedCount(regs[r].members) <= events[regs[r].event_id].max_team_size)
      => regs[r].status = "confirmed"

\* C28 as stated: after any interleaving of concurrent add-member requests on
\* a Registration, its stored member list has at most max_team_size entries.
C28_ConcurrentAddsBounded ==
  \A r \in DOMAIN regs :
    regs[r].mode = "team" =>
      Len(regs[r].members) <= events[regs[r].event_id].max_team_size

\* the stored Registrations that were cancelled
CancelledRegs == {r \in DOMAIN regs : regs[r].status = "cancelled"}

\* C29 as stated: after a leader's Registration for an event is cancelled,
\* every later create by that leader for that event is answered 409 Conflict.
C29_CancelledBlocksWithConflict ==
  \A r \in CancelledRegs :
    \A named \in NameInputs(regs[r].event_id), tm \in MemberInputs(regs[r].event_id),
       tmi \in InfoInputs(regs[r].event_id) :
      CreateRegistration(regs[r].leader_user_id, regs[r].event_id, named, tm, tmi).status = 409

\* C29 amended: after a leader's Registration for an event is cancelled, every
\* later create by that leader for that event fails and stores nothing; it is
\* answered 409 Conflict while the event passes the checks that come before
\* the lookup, and with the failure of the first such check otherwise.
C29_CancelledBlocksCreate ==
  \A r \in CancelledRegs :
    \A named \in NameInputs(regs[r].event_id), tm \in MemberInputs(regs[r].event_id),
       tmi \in InfoInputs(regs[r].event_id) :
      LET e   == regs[r].event_id
          res == CreateRegistration(regs[r].leader_user_id, e, named, tm, tmi)
      IN  /\ res.regs = regs
          /\ IF CheckEvent(e).status = 0
             THEN res.status = 409
             ELSE res.status = CheckEvent(e).status /\ res.message = CheckEvent(e).message

\* C29 witness: a Registration has just been cancelled while its event is
\* still open for registration, and its leader's new create is answered 409
C29_Witness ==
  \E r \in CancelledRegs :
    /\ last = "cancel"
    /\ CheckEvent(regs[r].event_id).status = 0
    /\ CreateRegistration(regs[r].leader_user_id, regs[r].event_id, TRUE, <<>>, <<>>).status = 409

\* C30: in every state the auth reducer can reach, isAuthenticated is true
\* exactly when user is not null; every *_FAILURE action and LOGOUT yields a
\* state with isAuthenticated false and user null, and LOGOUT also sets token
\* to null.
C30_AuthenticatedIffUser ==
  /\ auth.isAuthenticated <=> auth.user # NoUser
  /\ \A action \in AuthActions :
       LET next == authReducer(auth, action)
       IN  /\ action.type \in FailureTypes \cup {"LOGOUT"} =>
                ~next.isAuthenticated /\ next.user = NoUser
           /\ action.type = "LOGOUT" => next.token = NoToken
  /\ last \in FailureTypes \cup {"LOGOUT"} => ~auth.isAuthenticated /\ auth.user = NoUser
  /\ last = "LOGOUT" => auth.token = NoToken

\* C30 witness: a failure has just been reduced in a state that still holds
\* the token of an earlier login, and the user is gone
C30_Witness ==
  /\ last \in FailureTypes
  /\ auth.token \in Tokens
  /\ auth.error \in Errors
  /\ auth.user = NoUser
  /\ ~auth.isAuthenticated

====
